---- MODULE Spec2Model ----
(***************************************************************************)
(* Model of UDV-Core/src/Modules/Documents/DocumentsHandler.js: the        *)
(* DocumentsHandler object (document browser, oriented view, billboards)   *)
(* and the Document records it manages.                                    *)
(*                                                                         *)
(* Every handler of the source is an operator from a state record to a     *)
(* state record; an exception thrown in a handler ends it with the         *)
(* assignments made so far kept (field "threw").                           *)
(***************************************************************************)
EXTENDS Integers, Naturals, Sequences, FiniteSets, TLC

(* ------------------------------ bounds --------------------------------- *)

\* most rows in the csv file
MaxDocs == 2

\* most objects a click's ray intersects
MaxHits == 2

\* dt of a frame is a multiple of 16 ms, at most MaxDtSteps * 16
MaxDtSteps == 2

(* ------------------------ numbers of JavaScript ------------------------ *)

\* a JavaScript number is <<v>>, NaN is <<>>
NaN == <<>>

Num(v) == <<v>>

isNaN(x) == x = NaN

\* the digits a csv cell can hold; any other cell parses to NaN
DigitCells == <<"0", "1", "2", "3", "4">>

parseFloat(cell) ==
    IF \E k \in 1..Len(DigitCells) : DigitCells[k] = cell
    THEN Num((CHOOSE k \in 1..Len(DigitCells) : DigitCells[k] = cell) - 1)
    ELSE NaN

\* x + 1 on JavaScript numbers
PlusOne(x) == IF isNaN(x) THEN NaN ELSE Num(x[1] + 1)

MinusOne(x) == IF isNaN(x) THEN NaN ELSE Num(x[1] - 1)

\* x >= n, false when x is NaN
GreaterEq(x, n) == ~isNaN(x) /\ x[1] >= n

(* fractions <<n, d>>, d > 0: fadeAlpha and the opacities. fadeAlpha keeps *)
(* the denominator fadeDuration; two fractions are compared by value.      *)
Frac(n, d) == IF n = 0 THEN <<0, 1>> ELSE <<n, d>>

FracAdd(p, q) ==
    IF p[1] = 0 THEN q
    ELSE IF q[1] = 0 THEN p
    ELSE IF p[2] = q[2] THEN <<p[1] + q[1], p[2]>>
    ELSE <<p[1] * q[2] + q[1] * p[2], p[2] * q[2]>>

FracEq(p, q) == p[1] * q[2] = q[1] * p[2]

FracGeqOne(p) == p[1] >= p[2]

FracLess(p, q) == p[1] * q[2] < q[1] * p[2]

FracTimes100(p) == Frac(p[1] * 100, p[2])

\* Math.trunc of a non-negative fraction, as a fraction
FracTrunc(p) == Frac(p[1] \div p[2], 1)

Zero == Frac(0, 1)

One == Frac(1, 1)

Hundred == Frac(100, 1)

(* --------------------------- program constants ------------------------- *)

\* options.docFadeDuration || 2750
DefaultFadeDuration == 2750

\* dt of a frame when the update loop has just restarted
RestartDt == 16

\* var showBillboardButton = false
showBillboardButton == FALSE

\* controls.state when the controls are idle (STATE.NONE)
STATE_NONE == -1

\* controls.state during an animated travel
STATE_TRAVEL == 3

(* ------------------------------ references ----------------------------- *)

Null == <<"null">>

Undefined == <<"undefined">>

\* a reference to the Document at position k (from 0) of AllDocuments
DocRef(k) == <<"doc", k>>

IsDoc(r) == Len(r) = 2 /\ r[1] = "doc"

\* array[x] of JavaScript for a number x: undefined outside 0..length-1
ArrayAt(len, x) ==
    IF ~isNaN(x) /\ x[1] >= 0 /\ x[1] < len THEN DocRef(x[1]) ELSE Undefined

(* ------------------------------- csv rows ------------------------------ *)

\* the fields of row i that Document copies unchanged are the token i
ImageHD(i) == <<"Vilo3D/Docs/", "HD", i>>

ImageBD(i) == <<"Vilo3D/Docs/", "BD", i>>

Title(i) == <<"title", i>>

MetaData(i) == <<"metadata", i>>

StartDate(i) == <<"date", i>>

CoordCells == {"", "1"}

\* a row whose billboard position and view pose are given by two flags
MainRow(i, idx, bb, view) ==
    [line |-> i,
     docIndex |-> idx,
     billboardPos |-> IF bb THEN <<"1", "1", "1">> ELSE <<"", "", "">>,
     viewPosX |-> IF view THEN "1" ELSE "",
     viewQuatX |-> "1"]

\* csv files whose rows carry their row number as docIndex
RECURSIVE MainCatalogsOfLen(_)
MainCatalogsOfLen(n) ==
    IF n = 0 THEN {<<>>}
    ELSE {Append(c, MainRow(n, DigitCells[n], bb, view)) :
            c \in MainCatalogsOfLen(n - 1), bb \in BOOLEAN, view \in BOOLEAN}

MainCatalogs == UNION {MainCatalogsOfLen(n) : n \in 0..MaxDocs}

\* csv files with any docIndex cell and any billboard position
AnyRow(i) ==
    [line : {i},
     docIndex : {DigitCells[k] : k \in 1..(MaxDocs + 1)} \cup {""},
     billboardPos : CoordCells \X CoordCells \X CoordCells,
     viewPosX : {"1"},
     viewQuatX : {"1"}]

RECURSIVE AnyCatalogsOfLen(_)
AnyCatalogsOfLen(n) ==
    IF n = 0 THEN {<<>>}
    ELSE {Append(c, r) : c \in AnyCatalogsOfLen(n - 1), r \in AnyRow(n)}

AnyCatalogs == UNION {AnyCatalogsOfLen(n) : n \in 0..MaxDocs}

(* ------------------------------- Document ------------------------------ *)

\* Document whose useBillboard looks at the x coordinate alone, the billboard
\* being created for a complete position only
DocumentOneCoord(docData) ==
    LET billboardPosition == <<parseFloat(docData.billboardPos[1]),
                               parseFloat(docData.billboardPos[2]),
                               parseFloat(docData.billboardPos[3])>>
        complete == /\ ~isNaN(billboardPosition[1])
                    /\ ~isNaN(billboardPosition[2])
                    /\ ~isNaN(billboardPosition[3])
    IN [index |-> parseFloat(docData.docIndex),
        imageSourceHD |-> ImageHD(docData.line),
        imageSourceBD |-> ImageBD(docData.line),
        metaData |-> MetaData(docData.line),
        startDate |-> StartDate(docData.line),
        title |-> Title(docData.line),
        useBillboard |-> ~isNaN(billboardPosition[1]),
        billboardPosition |-> billboardPosition,
        viewPositionX |-> parseFloat(docData.viewPosX),
        viewQuaternionX |-> parseFloat(docData.viewQuatX),
        billboardGeometry |-> complete,
        billboardGeometryFrame |-> complete]

\* new Document(...) on the values initialize() reads from a row
Document(docData) ==
    LET billboardPosition == <<parseFloat(docData.billboardPos[1]),
                               parseFloat(docData.billboardPos[2]),
                               parseFloat(docData.billboardPos[3])>>
        useBillboard == /\ ~isNaN(billboardPosition[1])
                        /\ ~isNaN(billboardPosition[2])
                        /\ ~isNaN(billboardPosition[3])
    IN [index |-> parseFloat(docData.docIndex),
        imageSourceHD |-> ImageHD(docData.line),
        imageSourceBD |-> ImageBD(docData.line),
        metaData |-> MetaData(docData.line),
        startDate |-> StartDate(docData.line),
        title |-> Title(docData.line),
        useBillboard |-> useBillboard,
        billboardPosition |-> billboardPosition,
        viewPositionX |-> parseFloat(docData.viewPosX),
        viewQuaternionX |-> parseFloat(docData.viewQuatX),
        \* createBillboard() has run
        billboardGeometry |-> useBillboard,
        billboardGeometryFrame |-> useBillboard]

(* -------------------------------- state -------------------------------- *)

VARIABLES
    csvRows,                   \* content of the csv file
    loadState,                 \* "loading" until readCSVFile calls back
    temporal,                  \* this.temporal is set (options.temporal)
    globalTemporal,            \* what the free identifier "temporal" names
    temporalTime,              \* current time of the supplied controller
    fadeDuration,
    docBrowserWindowIsActive,
    billboardsAreActive,
    AllDocuments,
    currentDoc,
    isOrientingDoc,
    isFadingDoc,
    fadeAlpha,
    docBrowserWindowDisplay,   \* #docBrowserWindow style.display
    docBrowserPreviewImg,      \* #docBrowserPreviewImg src
    docBrowserMetaData,
    docBrowserTitle,
    docBrowserIndex,
    docBrowserToggleBillboard, \* text of the billboard button
    docBrowserToggleBillboardDisplay, \* its style.display
    docFullDisplay,            \* #docFull style.display
    docFullImgSrc,
    docFullImgOpacity,
    docOpaSlider,
    docOpacity,                \* the <output> next to the slider
    docFullPanelDisplay,
    sceneChildren,             \* billboard planes and frames in view.scene
    controlsState,             \* controls.state
    travelTarget,              \* pose of the last initiateTravel
    frameRequested,            \* view.notifyChange called, frame not yet run
    docInitCount,              \* 'docInit' events dispatched
    threw                      \* the last handler ended by an exception

vars == <<csvRows, loadState, temporal, globalTemporal, temporalTime,
          fadeDuration, docBrowserWindowIsActive, billboardsAreActive,
          AllDocuments, currentDoc, isOrientingDoc, isFadingDoc, fadeAlpha,
          docBrowserWindowDisplay, docBrowserPreviewImg, docBrowserMetaData,
          docBrowserTitle, docBrowserIndex, docBrowserToggleBillboard,
          docBrowserToggleBillboardDisplay, docFullDisplay, docFullImgSrc,
          docFullImgOpacity, docOpaSlider,
          docOpacity, docFullPanelDisplay, sceneChildren, controlsState,
          travelTarget, frameRequested, docInitCount, threw>>

\* the state as a record, for the handlers
Cur ==
    [csvRows |-> csvRows, loadState |-> loadState, temporal |-> temporal,
     globalTemporal |-> globalTemporal, temporalTime |-> temporalTime,
     fadeDuration |-> fadeDuration,
     docBrowserWindowIsActive |-> docBrowserWindowIsActive,
     billboardsAreActive |-> billboardsAreActive,
     AllDocuments |-> AllDocuments, currentDoc |-> currentDoc,
     isOrientingDoc |-> isOrientingDoc, isFadingDoc |-> isFadingDoc,
     fadeAlpha |-> fadeAlpha,
     docBrowserWindowDisplay |-> docBrowserWindowDisplay,
     docBrowserPreviewImg |-> docBrowserPreviewImg,
     docBrowserMetaData |-> docBrowserMetaData,
     docBrowserTitle |-> docBrowserTitle,
     docBrowserIndex |-> docBrowserIndex,
     docBrowserToggleBillboard |-> docBrowserToggleBillboard,
     docBrowserToggleBillboardDisplay |-> docBrowserToggleBillboardDisplay,
     docFullDisplay |-> docFullDisplay, docFullImgSrc |-> docFullImgSrc,
     docFullImgOpacity |-> docFullImgOpacity, docOpaSlider |-> docOpaSlider,
     docOpacity |-> docOpacity, docFullPanelDisplay |-> docFullPanelDisplay,
     sceneChildren |-> sceneChildren, controlsState |-> controlsState,
     travelTarget |-> travelTarget, frameRequested |-> frameRequested,
     docInitCount |-> docInitCount, threw |-> threw]

\* the next state is the record s
Becomes(s) ==
    /\ csvRows' = s.csvRows
    /\ loadState' = s.loadState
    /\ temporal' = s.temporal
    /\ globalTemporal' = s.globalTemporal
    /\ temporalTime' = s.temporalTime
    /\ fadeDuration' = s.fadeDuration
    /\ docBrowserWindowIsActive' = s.docBrowserWindowIsActive
    /\ billboardsAreActive' = s.billboardsAreActive
    /\ AllDocuments' = s.AllDocuments
    /\ currentDoc' = s.currentDoc
    /\ isOrientingDoc' = s.isOrientingDoc
    /\ isFadingDoc' = s.isFadingDoc
    /\ fadeAlpha' = s.fadeAlpha
    /\ docBrowserWindowDisplay' = s.docBrowserWindowDisplay
    /\ docBrowserPreviewImg' = s.docBrowserPreviewImg
    /\ docBrowserMetaData' = s.docBrowserMetaData
    /\ docBrowserTitle' = s.docBrowserTitle
    /\ docBrowserIndex' = s.docBrowserIndex
    /\ docBrowserToggleBillboard' = s.docBrowserToggleBillboard
    /\ docBrowserToggleBillboardDisplay' = s.docBrowserToggleBillboardDisplay
    /\ docFullDisplay' = s.docFullDisplay
    /\ docFullImgSrc' = s.docFullImgSrc
    /\ docFullImgOpacity' = s.docFullImgOpacity
    /\ docOpaSlider' = s.docOpaSlider
    /\ docOpacity' = s.docOpacity
    /\ docFullPanelDisplay' = s.docFullPanelDisplay
    /\ sceneChildren' = s.sceneChildren
    /\ controlsState' = s.controlsState
    /\ travelTarget' = s.travelTarget
    /\ frameRequested' = s.frameRequested
    /\ docInitCount' = s.docInitCount
    /\ threw' = s.threw

\* the step ends in the state s
StepIs(s) == Cur' = s

\* a handler starts
Enter(s) == [s EXCEPT !.threw = FALSE]

\* an exception ends the handler
Throw(s) == [s EXCEPT !.threw = TRUE]

\* the Document a reference points to
Deref(s, r) == s.AllDocuments[r[2] + 1]

(* ------------------------------ handlers ------------------------------- *)

\* this.view.notifyChange(...): a frame, and so a call of update(), is due
notifyChange(s) == [s EXCEPT !.frameRequested = TRUE]

updateBrowser(s) ==
    IF ~IsDoc(s.currentDoc) THEN Throw(s)
    ELSE LET d == Deref(s, s.currentDoc)
         IN [s EXCEPT !.docBrowserPreviewImg = d.imageSourceBD,
                      !.docBrowserMetaData = d.metaData,
                      !.docBrowserTitle = d.title,
                      !.docBrowserIndex = <<"index : ", d.index>>]

\* the scene objects of the Document at position k
Plane(k) == <<"billboard", k>>

Frame(k) == <<"frame", k>>

\* showLoop without the test of useBillboard
RECURSIVE showLoopNoCheck(_, _)
showLoopNoCheck(s, k) ==
    IF k >= Len(s.AllDocuments) THEN s
    ELSE showLoopNoCheck([s EXCEPT !.sceneChildren = @ \cup {Plane(k), Frame(k)}],
                         k + 1)

\* the forEach of showBillboards from position k on
RECURSIVE showLoop(_, _)
showLoop(s, k) ==
    IF k >= Len(s.AllDocuments) THEN s
    ELSE LET element == s.AllDocuments[k + 1]
         IN IF ~element.useBillboard THEN showLoop(s, k + 1)
            ELSE IF ~element.billboardGeometry \/ ~element.billboardGeometryFrame
            THEN Throw(s)
            ELSE showLoop([s EXCEPT !.sceneChildren = @ \cup {Plane(k), Frame(k)}],
                          k + 1)

\* showBillboards that ignores forceShow
showBillboardsNoForce(s, forceShow) ==
    IF ~s.billboardsAreActive THEN s
    ELSE LET s1 == showLoop([s EXCEPT !.docBrowserToggleBillboard =
                                          "Masquer Billboards"], 0)
         IN IF s1.threw THEN s1 ELSE notifyChange(s1)

showBillboards(s, forceShow) ==
    IF ~forceShow /\ ~s.billboardsAreActive THEN s
    ELSE LET s1 == showLoop([s EXCEPT !.docBrowserToggleBillboard =
                                          "Masquer Billboards"], 0)
         IN IF s1.threw THEN s1 ELSE notifyChange(s1)

\* the forEach of hideBillboards from position k on
RECURSIVE hideLoop(_, _)
hideLoop(s, k) ==
    IF k >= Len(s.AllDocuments) THEN s
    ELSE LET element == s.AllDocuments[k + 1]
         IN IF ~element.useBillboard THEN hideLoop(s, k + 1)
            ELSE IF ~element.billboardGeometry \/ ~element.billboardGeometryFrame
            THEN Throw(s)
            ELSE hideLoop([s EXCEPT !.sceneChildren = @ \ {Plane(k), Frame(k)}],
                          k + 1)

hideBillboards(s, forceHide) ==
    IF ~forceHide /\ s.billboardsAreActive THEN s
    ELSE LET s1 == hideLoop([s EXCEPT !.docBrowserToggleBillboard =
                                          "Afficher Billboards"], 0)
         IN IF s1.threw THEN s1 ELSE notifyChange(s1)

toggleBillboards(s) ==
    IF s.billboardsAreActive
    THEN hideBillboards([s EXCEPT !.billboardsAreActive = FALSE], TRUE)
    ELSE showBillboards([s EXCEPT !.billboardsAreActive = TRUE], TRUE)

\* pushDocuments that puts each new Document in front
RECURSIVE pushDocumentsReversed(_, _, _)
pushDocumentsReversed(docs, docDataFromFile, i) ==
    IF i >= Len(docDataFromFile) THEN docs
    ELSE pushDocumentsReversed(<<Document(docDataFromFile[i + 1])>> \o docs,
                               docDataFromFile, i + 1)

\* the for loop of initialize: one Document per row, in row order
RECURSIVE pushDocuments(_, _, _)
pushDocuments(docs, docDataFromFile, i) ==
    IF i >= Len(docDataFromFile) THEN docs
    ELSE pushDocuments(Append(docs, Document(docDataFromFile[i + 1])),
                       docDataFromFile, i + 1)

initialize(s, docDataFromFile) ==
    LET docs == pushDocuments(s.AllDocuments, docDataFromFile, 0)
        s1 == [s EXCEPT !.AllDocuments = docs,
                        !.currentDoc = ArrayAt(Len(docs), Num(0))]
        s2 == updateBrowser(s1)
        s3 == IF s2.billboardsAreActive THEN showBillboards(s2, TRUE)
                                        ELSE hideBillboards(s2, TRUE)
    IN IF s2.threw THEN s2
       ELSE IF s3.threw THEN s3
       ELSE [s3 EXCEPT !.docInitCount = @ + 1]

\* dt of the frame: 16 when the update loop has just restarted
effectiveDt(dt, updateLoopRestarted) == IF updateLoopRestarted THEN RestartDt ELSE dt

\* beginFade without the test of controls.state
beginFadeEarly(s) ==
    IF s.isOrientingDoc
    THEN [s EXCEPT !.isOrientingDoc = FALSE,
                   !.isFadingDoc = TRUE,
                   !.fadeAlpha = Zero,
                   !.docOpaSlider = Zero,
                   !.docOpacity = Zero,
                   !.docFullImgOpacity = Zero,
                   !.docFullPanelDisplay = "block"]
    ELSE s

\* lines 214-224: the travel is over, the fade begins
beginFade(s) ==
    IF s.isOrientingDoc /\ s.controlsState = STATE_NONE
    THEN [s EXCEPT !.isOrientingDoc = FALSE,
                   !.isFadingDoc = TRUE,
                   !.fadeAlpha = Zero,
                   !.docOpaSlider = Zero,
                   !.docOpacity = Zero,
                   !.docFullImgOpacity = Zero,
                   !.docFullPanelDisplay = "block"]
    ELSE s

\* fadeStep without the request for another frame
fadeStepNoNotify(s, dt) ==
    IF s.isFadingDoc
    THEN LET a == FracAdd(s.fadeAlpha, Frac(dt, s.fadeDuration))
         IN IF FracGeqOne(a)
            THEN [s EXCEPT !.fadeAlpha = a,
                           !.isFadingDoc = FALSE,
                           !.docFullImgOpacity = One,
                           !.docOpaSlider = Hundred,
                           !.docOpacity = Hundred]
            ELSE [s EXCEPT !.fadeAlpha = a,
                           !.docFullImgOpacity = a,
                           !.docOpaSlider = FracTimes100(a),
                           !.docOpacity = FracTrunc(FracTimes100(a))]
    ELSE s

\* lines 227-248: one step of the fade
fadeStep(s, dt) ==
    IF s.isFadingDoc
    THEN LET a == FracAdd(s.fadeAlpha, Frac(dt, s.fadeDuration))
         IN notifyChange(
              IF FracGeqOne(a)
              THEN [s EXCEPT !.fadeAlpha = a,
                             !.isFadingDoc = FALSE,
                             !.docFullImgOpacity = One,
                             !.docOpaSlider = Hundred,
                             !.docOpacity = Hundred]
              ELSE [s EXCEPT !.fadeAlpha = a,
                             !.docFullImgOpacity = a,
                             !.docOpaSlider = FracTimes100(a),
                             !.docOpacity = FracTrunc(FracTimes100(a))])
    ELSE s

\* lines 251-259: lookAt on the billboards; throws on a missing billboard
lookAtCamera(s) ==
    IF \E k \in 1..Len(s.AllDocuments) :
          /\ s.AllDocuments[k].useBillboard
          /\ ~s.AllDocuments[k].billboardGeometry
             \/ ~s.AllDocuments[k].billboardGeometryFrame
    THEN Throw(s)
    ELSE s

\* the frame requested by notifyChange runs, and calls update
update(s, dt, updateLoopRestarted) ==
    lookAtCamera(fadeStep(beginFade([s EXCEPT !.frameRequested = FALSE]),
                          effectiveDt(dt, updateLoopRestarted)))

\* nextDoc that stops one document too late
nextDocOffByOne(s) ==
    IF ~IsDoc(s.currentDoc) THEN Throw(s)
    ELSE LET index == Deref(s, s.currentDoc).index
         IN IF GreaterEq(PlusOne(index), Len(s.AllDocuments) + 1) THEN s
            ELSE updateBrowser([s EXCEPT !.currentDoc =
                                   ArrayAt(Len(s.AllDocuments), PlusOne(index))])

nextDoc(s) ==
    IF ~IsDoc(s.currentDoc) THEN Throw(s)
    ELSE LET index == Deref(s, s.currentDoc).index
         IN IF GreaterEq(PlusOne(index), Len(s.AllDocuments)) THEN s
            ELSE updateBrowser([s EXCEPT !.currentDoc =
                                   ArrayAt(Len(s.AllDocuments), PlusOne(index))])

previousDoc(s) ==
    IF ~IsDoc(s.currentDoc) THEN Throw(s)
    ELSE LET index == Deref(s, s.currentDoc).index
         IN IF index = Num(0) THEN s
            ELSE updateBrowser([s EXCEPT !.currentDoc =
                                   ArrayAt(Len(s.AllDocuments), MinusOne(index))])

\* controls.initiateTravel(viewPosition, "auto", viewQuaternion, true)
initiateTravel(s, d) ==
    [s EXCEPT !.controlsState = STATE_TRAVEL, !.travelTarget = d.title]

\* temporal.changeTime(startDate): "temporal" is a free identifier
changeTime(s, startDate) ==
    IF s.globalTemporal = "undefined" THEN Throw(s)
    ELSE IF s.globalTemporal = "same" THEN [s EXCEPT !.temporalTime = startDate]
    ELSE s

focusOnDoc(s) ==
    IF ~IsDoc(s.currentDoc) THEN Throw(s)
    ELSE LET d == Deref(s, s.currentDoc)
             s1 == [s EXCEPT !.docFullImgSrc = d.imageSourceHD,
                             !.docBrowserPreviewImg = d.imageSourceBD,
                             !.docFullImgOpacity = Zero,
                             !.docOpaSlider = Zero,
                             !.docOpacity = Zero,
                             !.docFullDisplay = "block",
                             !.docFullPanelDisplay = "none"]
             s2 == IF ~isNaN(d.viewPositionX) /\ ~isNaN(d.viewQuaternionX)
                   THEN initiateTravel(s1, d) ELSE s1
             s3 == IF s2.temporal THEN changeTime(s2, d.startDate) ELSE s2
             s4 == hideBillboards(s3, TRUE)
         IN IF s3.threw THEN s3
            ELSE IF s4.threw THEN s4
            ELSE notifyChange([s4 EXCEPT !.isOrientingDoc = TRUE,
                                         !.isFadingDoc = FALSE])

\* closeDocFull that forces the billboards into the scene
closeDocFullForced(s) ==
    showBillboards([s EXCEPT !.docFullDisplay = "none", !.docFullImgSrc = Null],
                   TRUE)

closeDocFull(s) ==
    showBillboards([s EXCEPT !.docFullDisplay = "none", !.docFullImgSrc = Null],
                   FALSE)

toggleDocBrowserWindow(s) ==
    [s EXCEPT !.docBrowserWindowDisplay =
                  IF s.docBrowserWindowIsActive THEN "block" ELSE "none",
              !.docBrowserWindowIsActive =
                  IF s.docBrowserWindowIsActive THEN TRUE ELSE FALSE]

\* firstBillboard without the break: the last billboard is the one kept
lastBillboard(intersects) ==
    IF \E i \in 1..Len(intersects) : intersects[i][1] = "billboard"
    THEN CHOOSE i \in 1..Len(intersects) :
            /\ intersects[i][1] = "billboard"
            /\ \A j \in (i + 1)..Len(intersects) : intersects[j][1] # "billboard"
    ELSE 0

\* the first billboard among the intersected objects, 0 when there is none
firstBillboard(intersects) ==
    IF \E i \in 1..Len(intersects) : intersects[i][1] = "billboard"
    THEN CHOOSE i \in 1..Len(intersects) :
            /\ intersects[i][1] = "billboard"
            /\ \A j \in 1..(i - 1) : intersects[j][1] # "billboard"
    ELSE 0

\* intersects: the objects of the scene the ray meets, nearest first
onMouseClick(s, intersects) ==
    LET i == firstBillboard(intersects)
    IN IF i = 0 THEN s
       ELSE focusOnDoc([s EXCEPT !.currentDoc = DocRef(intersects[i][2])])

\* the opacity slider is moved to opa
docOpaUpdate(s, opa) ==
    [s EXCEPT !.docOpaSlider = Frac(opa, 1),
              !.docOpacity = Frac(opa, 1),
              !.docFullImgOpacity = Frac(opa, 100)]

(* ------------------------------ the inputs ----------------------------- *)

\* options.docFadeDuration; 0 stands for an option that is not given
GivenFadeDurations == {3 * RestartDt}

\* options.docFadeDuration || 2750
fadeDurationOf(opt) == IF opt = 0 THEN DefaultFadeDuration ELSE opt

Dts == {k * RestartDt : k \in 0..MaxDtSteps}

SliderValues == {50}

\* an object of the scene that is no billboard of a document
OtherObject == <<"other", 0>>

\* what a ray can meet: objects of the scene, nearest first, each once
Intersections ==
    LET objects == sceneChildren \cup {OtherObject}
    IN {q \in UNION {[1..n -> objects] : n \in 0..MaxHits} :
          \A i, j \in 1..Len(q) : i # j => q[i] # q[j]}

(* ------------------------------- actions ------------------------------- *)

\* the constructor, up to the call of loadDataFromFile, for a csv file of
\* catalogs and options of temporals, fadeOptions and startActives
Constructor(catalogs, temporals, fadeOptions, startActives) ==
    /\ csvRows \in catalogs
    /\ loadState = "loading"
    /\ temporal \in temporals
    /\ globalTemporal \in IF temporal THEN {"undefined", "same", "other"}
                                      ELSE {"undefined"}
    /\ temporalTime = StartDate(0)
    /\ \E opt \in fadeOptions : fadeDuration = fadeDurationOf(opt)
    /\ docBrowserWindowIsActive \in startActives
    /\ billboardsAreActive = FALSE
    /\ AllDocuments = <<>>
    /\ currentDoc = Null
    /\ isOrientingDoc = FALSE
    /\ isFadingDoc = FALSE
    /\ fadeAlpha = Zero
    /\ docBrowserWindowDisplay = IF ~docBrowserWindowIsActive THEN "none" ELSE "block"
    /\ docBrowserPreviewImg = <<"DefaultImage">>
    /\ docBrowserMetaData = <<"metadata">>
    /\ docBrowserTitle = <<"doc title">>
    /\ docBrowserIndex = <<>>
    /\ docBrowserToggleBillboard = "Billboard"
    /\ docBrowserToggleBillboardDisplay = IF showBillboardButton THEN "block" ELSE "none"
    /\ docFullDisplay = ""
    /\ docFullImgSrc = <<>>
    /\ docFullImgOpacity = <<>>
    /\ docOpaSlider = Frac(75, 1)
    /\ docOpacity = Frac(50, 1)
    /\ docFullPanelDisplay = ""
    /\ sceneChildren = {}
    /\ controlsState = STATE_NONE
    /\ travelTarget = <<>>
    /\ frameRequested = FALSE
    /\ docInitCount = 0
    /\ threw = FALSE

\* a csv file of one row, with a view pose and no billboard
OneDocument == {<<MainRow(1, "0", FALSE, TRUE)>>}

\* any catalog with a given fade duration and the browser window hidden, or one
\* document with the default fade duration and the window hidden or shown
Init ==
    \/ Constructor(MainCatalogs, BOOLEAN, GivenFadeDurations, {FALSE})
    \/ Constructor(OneDocument, {FALSE}, {0}, BOOLEAN)

\* readCSVFile has read the file and calls initialize, once
readCSVFile ==
    /\ loadState = "loading"
    /\ Becomes([initialize(Enter(Cur), csvRows) EXCEPT !.loadState = "done"])

Update ==
    \E dt \in Dts, updateLoopRestarted \in BOOLEAN :
        Becomes(update(Enter(Cur), dt, updateLoopRestarted))

NextDoc == Becomes(nextDoc(Enter(Cur)))

PreviousDoc == Becomes(previousDoc(Enter(Cur)))

ShowBillboards ==
    \E forceShow \in BOOLEAN : Becomes(showBillboards(Enter(Cur), forceShow))

HideBillboards ==
    \E forceHide \in BOOLEAN : Becomes(hideBillboards(Enter(Cur), forceHide))

ToggleBillboards == Becomes(toggleBillboards(Enter(Cur)))

FocusOnDoc == Becomes(focusOnDoc(Enter(Cur)))

CloseDocFull == Becomes(closeDocFull(Enter(Cur)))

ToggleDocBrowserWindow == Becomes(toggleDocBrowserWindow(Enter(Cur)))

OnMouseClick ==
    \E intersects \in Intersections :
        Becomes(onMouseClick(Enter(Cur), intersects))

\* the slider is in the panel of the oriented view
DocOpaUpdate ==
    /\ docFullDisplay = "block"
    /\ docFullPanelDisplay = "block"
    /\ \E opa \in SliderValues : Becomes(docOpaUpdate(Enter(Cur), opa))

\* the controls finish the animated travel
TravelEnds ==
    /\ controlsState = STATE_TRAVEL
    /\ Becomes([Cur EXCEPT !.controlsState = STATE_NONE])

Next ==
    \/ readCSVFile
    \/ Update
    \/ NextDoc
    \/ PreviousDoc
    \/ ShowBillboards
    \/ HideBillboards
    \/ ToggleBillboards
    \/ FocusOnDoc
    \/ CloseDocFull
    \/ ToggleDocBrowserWindow
    \/ OnMouseClick
    \/ DocOpaUpdate
    \/ TravelEnds

Spec == Init /\ [][Next]_vars

\* during a fade, the frame that notifyChange requested runs, some time after
\* the last one: among the steps of Next, these are the calls of update()
\* with dt > 0 while isFadingDoc
FrameRuns ==
    /\ frameRequested
    /\ isFadingDoc
    /\ \E dt \in (Dts \ {0}) \cup {RestartDt} :
          fadeAlpha' = FracAdd(fadeAlpha, Frac(dt, fadeDuration))

\* the main loop runs the frames that a fade requests
FairSpec == Spec /\ WF_fadeAlpha(FrameRuns)

(* ------------------------- words for the claims ------------------------ *)

\* the step is a call of update()
UpdateCall ==
    \E dt \in Dts, updateLoopRestarted \in BOOLEAN :
        StepIs(update(Enter(Cur), dt, updateLoopRestarted))

\* the step is a click on the intersected objects
ClickOn(intersects) == StepIs(onMouseClick(Enter(Cur), intersects))

\* a step in which focusOnDoc runs: the Orient buttons, or a picked billboard
FocusCall ==
    \/ StepIs(focusOnDoc(Enter(Cur)))
    \/ \E intersects \in Intersections :
          /\ \E i \in 1..Len(intersects) : intersects[i][1] = "billboard"
          /\ ClickOn(intersects)

\* the scene objects of all the documents that use a billboard
AllBillboards ==
    UNION {{Plane(k - 1), Frame(k - 1)} :
             k \in {j \in 1..Len(AllDocuments) : AllDocuments[j].useBillboard}}

(* -------------------------------- C1 ----------------------------------- *)

\* C1: the oriented view is ordered. A focusOnDoc call on a current document
\* leaves the full image at opacity 0 and no fade running; while
\* isOrientingDoc holds the opacity is 0 and no fade runs, and an update()
\* that sees controls.state # -1 keeps it so; a fade begins only in an
\* update() that sees isOrientingDoc and controls.state = -1, which clears
\* isOrientingDoc and counts fadeAlpha from 0.
C1_OrientedViewOrdering ==
    [][/\ isOrientingDoc => ~isFadingDoc /\ docFullImgOpacity = Zero
       /\ controlsState = STATE_TRAVEL => ~isFadingDoc /\ docFullImgOpacity = Zero
       \* no focusOnDoc call on a document ends with a fade running or opacity # 0
       /\ (IsDoc(currentDoc') /\ (isFadingDoc' \/ docFullImgOpacity' # Zero))
             => ~FocusCall
       \* no update() that sees the travel going on ends the wait
       /\ (/\ isOrientingDoc /\ controlsState # STATE_NONE
           /\ ~(isOrientingDoc' /\ ~isFadingDoc' /\ docFullImgOpacity' = Zero))
             => ~UpdateCall
       \* a fade begins only in an update() that sees the travel over
       /\ (isFadingDoc' /\ (~isFadingDoc \/ isOrientingDoc # isOrientingDoc'))
             => /\ isOrientingDoc /\ controlsState = STATE_NONE
                /\ ~isOrientingDoc'
                /\ \E dt \in Dts \cup {RestartDt} :
                      fadeAlpha' = Frac(dt, fadeDuration)
                /\ UpdateCall
      ]_vars

\* an update() has run during the travel that focusOnDoc started, after an
\* earlier fade had raised fadeAlpha
C1_Witness ==
    /\ isOrientingDoc
    /\ controlsState = STATE_TRAVEL
    /\ ~frameRequested
    /\ fadeAlpha # Zero
    /\ docFullImgOpacity = Zero

(* -------------------------------- C2 ----------------------------------- *)

\* the three safety parts of C2, for one step
C2_Step ==
    \* every update() that fades, or begins to, requests another frame
    /\ ((isFadingDoc \/ (isOrientingDoc /\ controlsState = STATE_NONE))
          /\ ~frameRequested') => ~UpdateCall
    \* a fade ends by an update() that sets opacity 1 and the slider and its
    \* output to 100, or by a new focusOnDoc
    /\ (isFadingDoc /\ ~isFadingDoc')
          => \/ /\ docFullImgOpacity' = One
                /\ docOpaSlider' = Hundred
                /\ docOpacity' = Hundred
                /\ FracGeqOne(fadeAlpha')
                /\ UpdateCall
             \/ FocusCall
    \* with no travel awaited and no fade running, update() leaves the opacity
    /\ (~isOrientingDoc /\ ~isFadingDoc /\ docFullImgOpacity' # docFullImgOpacity)
          => ~UpdateCall

\* C2: a fade that has begun requests a frame in every update(), and when
\* the requested frames run with dt > 0 it ends: by itself, with opacity
\* exactly 1 and the slider and its output at 100, unless a new focusOnDoc
\* ends it first; afterwards update() does not change the opacity.
C2_FadeCompletion ==
    /\ [][C2_Step]_vars
    /\ isFadingDoc ~> ~isFadingDoc

\* a fade has run to its end
C2_Witness ==
    /\ ~isFadingDoc
    /\ ~isOrientingDoc
    /\ FracGeqOne(fadeAlpha)
    /\ docFullImgOpacity = One
    /\ docOpaSlider = Hundred
    /\ docOpacity = Hundred

(* -------------------------------- C3 ----------------------------------- *)

\* the csv file is not empty and row i (from 0) has docIndex i
WellIndexed ==
    /\ Len(csvRows) > 0
    /\ \A i \in 1..Len(csvRows) : parseFloat(csvRows[i].docIndex) = Num(i - 1)

\* the state but for the exception flag is unchanged
NothingChanges == StepIs([Cur EXCEPT !.threw = threw'])

\* C3: navigation stays in bounds. With a csv file that is not empty and
\* whose rows have docIndex 0..n-1 in row order, after initialization
\* currentDoc is always a document of AllDocuments at a position p with
\* 0 <= p < n and index p; nextDoc moves it to p+1 and previousDoc to p-1,
\* and nextDoc on the last and previousDoc on the first change nothing.
C3_NavigationBounds ==
    [][(WellIndexed /\ loadState = "done") =>
         /\ IsDoc(currentDoc)
         /\ currentDoc[2] \in 0..(Len(AllDocuments) - 1)
         /\ Deref(Cur, currentDoc).index = Num(currentDoc[2])
         /\ StepIs(nextDoc(Enter(Cur))) =>
              IF currentDoc[2] + 1 < Len(AllDocuments)
              THEN currentDoc' = DocRef(currentDoc[2] + 1)
              ELSE NothingChanges
         /\ StepIs(previousDoc(Enter(Cur))) =>
              IF currentDoc[2] > 0
              THEN currentDoc' = DocRef(currentDoc[2] - 1)
              ELSE NothingChanges
      ]_vars

\* nextDoc has moved to the last document of two, and the browser shows it
C3_Witness ==
    /\ WellIndexed
    /\ loadState = "done"
    /\ Len(AllDocuments) = 2
    /\ currentDoc = DocRef(1)
    /\ docBrowserTitle = Title(2)

(* -------------------------------- C4 ----------------------------------- *)

\* the handlers C4 names, after an initialization that toggleBillboards may
\* precede (initialize then shows the billboards, lines 183-185)
BrowserNext ==
    \/ loadState = "loading" /\ readCSVFile
    \/ loadState = "loading" /\ ToggleBillboards
    \/ loadState = "done" /\ NextDoc
    \/ loadState = "done" /\ PreviousDoc
    \/ loadState = "done" /\ FocusOnDoc
    \/ loadState = "done" /\ CloseDocFull
    \/ loadState = "done" /\ OnMouseClick

BrowserSpec == Init /\ [][BrowserNext]_vars

\* C4: after initialization the document browser shows the title, the
\* metadata, the index and the thumbnail of currentDoc.
C4_BrowserShowsCurrent ==
    (loadState = "done" /\ IsDoc(currentDoc)) =>
        LET d == Deref(Cur, currentDoc)
        IN /\ docBrowserTitle = d.title
           /\ docBrowserMetaData = d.metaData
           /\ docBrowserIndex = <<"index : ", d.index>>
           /\ docBrowserPreviewImg = d.imageSourceBD

(* -------------------------------- C5 ----------------------------------- *)

\* C5: the billboards are in the scene as a group. Either the plane and the
\* frame of every document with useBillboard are in the scene or the scene
\* holds none of them, and it never holds the plane or the frame of a
\* document without useBillboard.
C5_BillboardsAsGroup ==
    /\ sceneChildren = {} \/ sceneChildren = AllBillboards
    /\ \A k \in 1..Len(AllDocuments) :
          ~AllDocuments[k].useBillboard =>
              Plane(k - 1) \notin sceneChildren /\ Frame(k - 1) \notin sceneChildren

\* the billboards of a catalog with and without billboards are shown
C5_Witness ==
    /\ Len(AllDocuments) = 2
    /\ AllDocuments[1].useBillboard
    /\ ~AllDocuments[2].useBillboard
    /\ sceneChildren = {Plane(0), Frame(0)}

(* -------------------------------- C6 ----------------------------------- *)

\* what a click on the intersected objects must do
C6_Click(intersects) ==
    IF \E i \in 1..Len(intersects) : intersects[i][1] = "billboard"
    THEN LET first == CHOOSE i \in 1..Len(intersects) :
                         /\ intersects[i][1] = "billboard"
                         /\ ~\E j \in 1..Len(intersects) :
                               j < i /\ intersects[j][1] = "billboard"
             k == intersects[first][2]
             d == AllDocuments[k + 1]
         IN /\ currentDoc' = DocRef(k)
            /\ docFullImgSrc' = d.imageSourceHD
            /\ docFullDisplay' = "block"
            /\ docFullImgOpacity' = Zero
            /\ StepIs(focusOnDoc([Enter(Cur) EXCEPT !.currentDoc = DocRef(k)]))
    ELSE NothingChanges

\* C6: a click whose ray meets a billboard plane of the scene makes the
\* document of the first such plane the current one and runs focusOnDoc
\* for it: the overlay shows its full image at opacity 0; a click that
\* meets no billboard plane, as every click while the billboards are
\* hidden, changes nothing.
C6_BillboardPicking ==
    [][\A intersects \in Intersections :
          C6_Click(intersects)
          \/ ~ClickOn(intersects)]_vars

\* a click has picked the second document while the browser showed the first
C6_Witness ==
    /\ currentDoc = DocRef(1)
    /\ docBrowserTitle = Title(1)
    /\ docFullImgSrc = ImageHD(2)
    /\ isOrientingDoc
    /\ sceneChildren = {}
    /\ billboardsAreActive

(* -------------------------------- C7 ----------------------------------- *)

\* csv files with any docIndex cells, and the handlers that use the index
LoadInit == Constructor(AnyCatalogs, {FALSE}, GivenFadeDurations, {FALSE})

LoadNext ==
    \/ readCSVFile
    \/ NextDoc
    \/ PreviousDoc
    \/ ToggleBillboards

LoadSpec == LoadInit /\ [][LoadNext]_vars

\* the step in which readCSVFile calls initialize
LoadCompletes == loadState = "loading" /\ loadState' = "done"

\* after the step AllDocuments holds one Document per row, in row order, the
\* i-th built from row i, and currentDoc is AllDocuments[0]
C7_RowOrder ==
    /\ Len(AllDocuments') = Len(csvRows)
    /\ \A i \in 1..Len(csvRows) :
          /\ AllDocuments'[i].title = Title(i)
          /\ AllDocuments'[i].metaData = MetaData(i)
          /\ AllDocuments'[i].imageSourceHD = ImageHD(i)
          /\ AllDocuments'[i].imageSourceBD = ImageBD(i)
          /\ AllDocuments'[i].startDate = StartDate(i)
    /\ currentDoc' = ArrayAt(Len(csvRows), Num(0))

\* C7 as the spec states it: catalog loading. initialize called with n rows
\* appends n Documents in row order, the i-th built from row i, sets
\* currentDoc to AllDocuments[0], and the index of every document equals its
\* position in the array.
C7_IndexIsPosition ==
    [][LoadCompletes =>
         /\ C7_RowOrder
         /\ \A i \in 1..Len(csvRows) : AllDocuments'[i].index = Num(i - 1)
      ]_vars

\* C7, amended: initialize called with n rows appends n Documents in row
\* order, the i-th built from row i, and sets currentDoc to AllDocuments[0]
\* (undefined when n = 0); the index of a document is the number parsed from
\* the docIndex cell of its row, NaN if the cell holds no number, so it
\* equals the position for every document exactly when every row's docIndex
\* cell holds its row number, from 0.
C7_CatalogLoading ==
    [][LoadCompletes =>
         /\ C7_RowOrder
         /\ \A i \in 1..Len(csvRows) :
               AllDocuments'[i].index = parseFloat(csvRows[i].docIndex)
         /\ (\A i \in 1..Len(csvRows) : AllDocuments'[i].index = Num(i - 1))
               <=> (\A i \in 1..Len(csvRows) : csvRows[i].docIndex = DigitCells[i])
      ]_vars

\* a csv file of two rows has been loaded, whose docIndex cells are 1 and
\* not a number
C7_Witness ==
    /\ loadState = "done"
    /\ Len(AllDocuments) = 2
    /\ AllDocuments[1].title = Title(1)
    /\ AllDocuments[1].index = Num(1)
    /\ AllDocuments[2].index = NaN
    /\ currentDoc = DocRef(0)

(* -------------------------------- C8 ----------------------------------- *)

\* C8: the initialization event. For every completed load, with any number
\* of rows n >= 0, 'docInit' is dispatched exactly once, after AllDocuments
\* was filled, and never before the load completes.
C8_DocInitOnce ==
    /\ loadState = "loading" => docInitCount = 0
    /\ loadState = "done" =>
          /\ docInitCount = 1
          /\ Len(AllDocuments) = Len(csvRows)

(* -------------------------------- C9 ----------------------------------- *)

\* C9: toggleDocBrowserWindow hides or shows the document browser. Each call
\* switches the window between displayed and hidden, and
\* docBrowserWindowIsActive between true and false.
C9_ToggleSwitches ==
    [][StepIs(toggleDocBrowserWindow(Enter(Cur))) =>
         /\ docBrowserWindowIsActive' = ~docBrowserWindowIsActive
         /\ docBrowserWindowDisplay' =
               IF docBrowserWindowDisplay = "none" THEN "block" ELSE "none"
      ]_vars

(* -------------------------------- C10 ---------------------------------- *)

\* C10: the force flags of show and hide. showBillboards(true) always puts
\* the billboards in the scene; showBillboards(false) does so if
\* billboardsAreActive and changes nothing otherwise; hideBillboards(true)
\* always removes them; hideBillboards(false) removes them if
\* billboardsAreActive is false and changes nothing otherwise. Neither
\* changes billboardsAreActive.
C10_ForceFlags ==
    [][/\ \A forceShow \in BOOLEAN :
             StepIs(showBillboards(Enter(Cur), forceShow)) =>
                 /\ billboardsAreActive' = billboardsAreActive
                 /\ IF forceShow \/ billboardsAreActive
                    THEN AllDocuments' = AllDocuments /\ sceneChildren' = AllBillboards
                    ELSE NothingChanges
       /\ \A forceHide \in BOOLEAN :
             StepIs(hideBillboards(Enter(Cur), forceHide)) =>
                 /\ billboardsAreActive' = billboardsAreActive
                 /\ IF forceHide \/ ~billboardsAreActive
                    THEN AllDocuments' = AllDocuments /\ sceneChildren' = {}
                    ELSE NothingChanges
      ]_vars

\* showBillboards(true) has shown the billboards while billboardsAreActive
\* is false
C10_Witness ==
    /\ ~billboardsAreActive
    /\ sceneChildren # {}
    /\ sceneChildren = AllBillboards
    /\ docBrowserToggleBillboard = "Masquer Billboards"

(* -------------------------------- C11 ---------------------------------- *)

\* C11: the temporal adjustment. When a TemporalController is supplied in
\* options.temporal, every focusOnDoc call on a current document sets that
\* controller's current time to currentDoc.startDate and completes the rest
\* of the operation (billboards hidden, isOrientingDoc true, isFadingDoc
\* false); when none is supplied, no time change is attempted.
C11_TemporalAdjustment ==
    [][(IsDoc(currentDoc) /\ StepIs(focusOnDoc(Enter(Cur)))) =>
         IF temporal
         THEN /\ temporalTime' = Deref(Cur, currentDoc).startDate
              /\ sceneChildren' = {}
              /\ isOrientingDoc'
              /\ ~isFadingDoc'
              /\ ~threw'
         ELSE temporalTime' = temporalTime /\ ~threw'
      ]_vars

(* -------------------------------- C12 ---------------------------------- *)

\* the events of the user interface with the billboard button not displayed:
\* a button with display none receives no mousedown, so toggleBillboards is
\* not among them, and nothing outside calls show or hideBillboards
UiNext ==
    \/ readCSVFile
    \/ Update
    \/ NextDoc
    \/ PreviousDoc
    \/ FocusOnDoc
    \/ CloseDocFull
    \/ OnMouseClick
    \/ DocOpaUpdate
    \/ TravelEnds

UiSpec == Init /\ [][UiNext]_vars

\* C12: billboards are always hidden without the toggle button. With
\* showBillboardButton false the billboard button is never displayed, and
\* after any sequence of next, previous, orient, close, scene clicks, frame
\* updates and the completion of the csv load no billboard is in the scene.
C12_AlwaysHidden ==
    /\ docBrowserToggleBillboardDisplay = "none"
    /\ ~billboardsAreActive
    /\ sceneChildren = {}

\* a document with a billboard has been oriented and its view closed
C12_Witness ==
    /\ loadState = "done"
    /\ AllBillboards # {}
    /\ docFullDisplay = "none"
    /\ docBrowserToggleBillboard = "Afficher Billboards"
    /\ sceneChildren = {}

(* -------------------------------- C13 ---------------------------------- *)

\* an update() that sees the travel over begins a fade, from fadeAlpha 0
FadeBegins == isOrientingDoc /\ controlsState = STATE_NONE

\* C13: the fade is linear. During a fade each update() adds dt/fadeDuration
\* to fadeAlpha, dt being 16 when updateLoopRestarted (so fadeAlpha is the sum
\* of the effective dt since the fade began, over fadeDuration); the
\* displayed opacity equals fadeAlpha while it is below 1, is set to 1 as
\* soon as fadeAlpha >= 1, never decreases within a fade and never exceeds 1.
C13_LinearFade ==
    [][/\ \A dt \in Dts, updateLoopRestarted \in BOOLEAN :
             (/\ isFadingDoc \/ FadeBegins
              /\ StepIs(update(Enter(Cur), dt, updateLoopRestarted)))
                => FracEq(fadeAlpha',
                          FracAdd(IF FadeBegins THEN Zero ELSE fadeAlpha,
                                  Frac(IF updateLoopRestarted THEN 16 ELSE dt,
                                       fadeDuration)))
       \* while the fade runs the opacity is fadeAlpha, below 1
       /\ isFadingDoc' =>
             /\ FracLess(fadeAlpha', One)
             /\ FracEq(docFullImgOpacity', fadeAlpha')
       \* the update() that reaches 1 ends the fade at opacity 1
       /\ ((isFadingDoc \/ FadeBegins) /\ FracGeqOne(fadeAlpha') /\ UpdateCall)
             => ~isFadingDoc' /\ docFullImgOpacity' = One
       \* within a fade the opacity does not decrease
       /\ (isFadingDoc /\ isFadingDoc')
             => ~FracLess(docFullImgOpacity', docFullImgOpacity)
      ]_vars

(* -------------------------------- C14 ---------------------------------- *)

\* the calls C14 names, after or before the completion of the csv load
OrientNext ==
    \/ readCSVFile
    \/ ToggleBillboards
    \/ FocusOnDoc
    \/ CloseDocFull

OrientSpec == Init /\ [][OrientNext]_vars

\* C14: the billboards around the oriented view. focusOnDoc always removes
\* the billboards from the scene without changing billboardsAreActive, and
\* after closeDocFull the billboards are in the scene if and only if
\* billboardsAreActive is true, for any sequence of toggleBillboards,
\* focusOnDoc and closeDocFull calls before it.
C14_AroundOrientedView ==
    [][/\ StepIs(focusOnDoc(Enter(Cur))) =>
             /\ sceneChildren' = {}
             /\ billboardsAreActive' = billboardsAreActive
       /\ StepIs(closeDocFull(Enter(Cur))) =>
             /\ billboardsAreActive' = billboardsAreActive
             /\ sceneChildren' = IF billboardsAreActive THEN AllBillboards ELSE {}
      ]_vars

(* -------------------------------- C15 ---------------------------------- *)

\* csv files with any billboard positions, and the handlers that use the
\* billboard objects
BillboardNext ==
    \/ readCSVFile
    \/ Update
    \/ ShowBillboards
    \/ HideBillboards
    \/ ToggleBillboards

BillboardSpec == LoadInit /\ [][BillboardNext]_vars

\* every Document uses a billboard exactly when the three coordinates of its
\* billboard position are numbers, and has its plane and frame exactly then
C15_Eligible ==
    \A k \in 1..Len(AllDocuments) :
        LET d == AllDocuments[k]
        IN /\ d.useBillboard <=>
                 \A c \in 1..3 : /\ d.billboardPosition[c] # NaN
                                 /\ csvRows[k].billboardPos[c] # ""
           /\ d.billboardGeometry <=> d.useBillboard
           /\ d.billboardGeometryFrame <=> d.useBillboard

\* C15: billboard eligibility. A Document has useBillboard true if and only
\* if all three coordinates of its billboard position are non-NaN, and its
\* plane and frame exist if and only if useBillboard is true; update(),
\* showBillboards and hideBillboards touch the billboard objects only of
\* documents with useBillboard, so that no catalog mixing documents with and
\* without billboard position makes them access a null billboard.
C15_BillboardEligibility ==
    /\ []C15_Eligible
    /\ [][/\ UpdateCall => ~threw'
          /\ \A force \in BOOLEAN :
                \/ StepIs(showBillboards(Enter(Cur), force))
                \/ StepIs(hideBillboards(Enter(Cur), force))
                => ~threw' /\ sceneChildren' \subseteq AllBillboards
         ]_vars

\* the billboards of a catalog are shown and a frame has run, the first
\* document having a billboard and the second two coordinates of three
C15_Witness ==
    /\ Len(AllDocuments) = 2
    /\ csvRows[1].billboardPos = <<"1", "1", "1">>
    /\ csvRows[2].billboardPos = <<"1", "", "1">>
    /\ sceneChildren = {Plane(0), Frame(0)}
    /\ ~frameRequested

====
